---- MODULE Spec2Model ----
(***************************************************************************)
(* The specification dashboard of riscv-admin/bod-report                   *)
(* (web-ui/src/App.jsx): the normalisation functions, the snapshot load    *)
(* of the App component (fetch chain, normalise, drop cancelled, sort,     *)
(* publish to React state) and the filtered view.                          *)
(*                                                                         *)
(* A JavaScript string is a sequence of one-character strings, so that     *)
(* toLowerCase, trim, includes and the quarter pattern work on characters. *)
(***************************************************************************)
EXTENDS Integers, Sequences, FiniteSets, TLC

VARIABLES
    rows,         \* useState([]): the sorted base collection
    loading,      \* useState(true)
    error,        \* useState(""): "" or an error message
    searchTerm,   \* useState("")
    bodOnly,      \* useState(false)
    lastUpdated,  \* useState(formatTimestamp(new Date())): which load stamped it
    loads,        \* one record per run of the data-load effect (its closure)
    dev,          \* import.meta.env.DEV
    localCsvUrl,  \* LOCAL_CSV_URL is a non-empty string
    arg,          \* the argument of a direct call of a pure function
    out           \* what that call returned

vars == <<rows, loading, error, searchTerm, bodOnly, lastUpdated, loads,
          dev, localCsvUrl, arg, out>>

appVars == <<rows, loading, error, searchTerm, bodOnly, lastUpdated, loads,
             dev, localCsvUrl>>

---------------------------------------------------------------------------
(* Bounds of the model.                                                    *)

\* fragments concatenated into one argument of a pure function
MaxParts == 2
\* records of one CSV snapshot in the pipeline specification
MaxRows == 3
\* runs of the data-load effect (mount, clean-up, mount again ...)
MaxLoads == 2

---------------------------------------------------------------------------
(* JavaScript values and strings.                                          *)

Str(s) == [type |-> "string", str |-> s, num |-> 0]
Null == [type |-> "null", str |-> <<>>, num |-> 0]
Undefined == [type |-> "undefined", str |-> <<>>, num |-> 0]
Num(n) == [type |-> "number", str |-> <<>>, num |-> n]
NaN == [type |-> "NaN", str |-> <<>>, num |-> 0]
\* an object or function, identified by its name
Obj(name) == [type |-> "object", str |-> name, num |-> 0]

\* !value for the values the functions below are called with
Falsy(value) ==
    \/ value.type \in {"null", "undefined", "NaN"}
    \/ value.type = "string" /\ value.str = <<>>
    \/ value.type = "number" /\ value.num = 0

\* String(value)
StringOf(value) ==
    CASE value.type = "string" -> value.str
      [] value.type = "null" -> <<"n","u","l","l">>
      [] OTHER -> <<"u","n","d","e","f","i","n","e","d">>

UpperCase == <<"A","B","C","D","E","F","G","H","I","J","K","L","M","N","O","P","Q","R","S","T","U","V","W","X","Y","Z">>
LowerCase == <<"a","b","c","d","e","f","g","h","i","j","k","l","m","n","o","p","q","r","s","t","u","v","w","x","y","z">>

toLowerCaseChar(c) ==
    IF \E i \in 1..Len(UpperCase) : UpperCase[i] = c
    THEN LowerCase[CHOOSE i \in 1..Len(UpperCase) : UpperCase[i] = c]
    ELSE c

\* String.prototype.toLowerCase
toLowerCase(s) == [i \in 1..Len(s) |-> toLowerCaseChar(s[i])]

WhiteSpace == {" ", "\t"}

RECURSIVE trimStart(_)
trimStart(s) ==
    IF Len(s) > 0 /\ s[1] \in WhiteSpace THEN trimStart(Tail(s)) ELSE s

RECURSIVE trimEnd(_)
trimEnd(s) ==
    IF Len(s) > 0 /\ s[Len(s)] \in WhiteSpace
    THEN trimEnd(SubSeq(s, 1, Len(s) - 1))
    ELSE s

\* String.prototype.trim
trim(s) == trimEnd(trimStart(s))

\* String.prototype.includes
includes(s, t) ==
    \E i \in 0..(Len(s) - Len(t)) : SubSeq(s, i + 1, i + Len(t)) = t

\* Array.prototype.indexOf (0-based, -1 when absent)
indexOf(list, x) ==
    IF \E i \in 1..Len(list) : list[i] = x
    THEN (CHOOSE i \in 1..Len(list) :
              list[i] = x /\ \A j \in 1..(i - 1) : list[j] # x) - 1
    ELSE -1

---------------------------------------------------------------------------
(* Status normalisation and phase derivation.                              *)

WORKFLOW_PHASES ==
    << <<"I","n","c","e","p","t","i","o","n">>,
       <<"P","l","a","n","n","i","n","g">>,
       <<"D","e","v","e","l","o","p","m","e","n","t">>,
       <<"S","t","a","b","i","l","i","z","a","t","i","o","n">>,
       <<"F","r","e","e","z","e">>,
       <<"R","a","t","i","f","i","c","a","t","i","o","n","-","R","e","a","d","y">>,
       <<"S","p","e","c","i","f","i","c","a","t","i","o","n"," ","i","n"," ","P","u","b","l","i","c","a","t","i","o","n">> >>

\* a chain that asks for "planning" before "freeze"
normalizeStatus_planningBeforeFreeze(value) ==
    IF Falsy(value) THEN <<>>
    ELSE LET v == StringOf(value)
             lower == toLowerCase(v)
         IN  IF includes(lower, <<"r","a","t","i","f","i","c","a","t","i","o","n","-","r","e","a","d","y">>) \/ includes(lower, <<"r","a","t","-","r","e","a","d","y">>)
                 THEN <<"R","a","t","i","f","i","c","a","t","i","o","n","-","R","e","a","d","y">>
             ELSE IF includes(lower, <<"p","u","b","l","i","c","a","t","i","o","n">>) THEN <<"S","p","e","c","i","f","i","c","a","t","i","o","n"," ","i","n"," ","P","u","b","l","i","c","a","t","i","o","n">>
             ELSE IF includes(lower, <<"p","l","a","n","n","i","n","g">>) THEN <<"P","l","a","n","n","i","n","g">>
             ELSE IF includes(lower, <<"f","r","e","e","z","e">>) THEN <<"F","r","e","e","z","e">>
             ELSE IF includes(lower, <<"s","t","a","b","i","l","i","z","a","t","i","o","n">>) THEN <<"S","t","a","b","i","l","i","z","a","t","i","o","n">>
             ELSE IF includes(lower, <<"d","e","v","e","l","o","p","m","e","n","t">>) THEN <<"D","e","v","e","l","o","p","m","e","n","t">>
             ELSE IF includes(lower, <<"i","n","c","e","p","t","i","o","n">>) THEN <<"I","n","c","e","p","t","i","o","n">>
             ELSE IF includes(lower, <<"c","a","n","c","e","l","l","e","d">>) THEN <<"C","a","n","c","e","l","l","e","d">>
             ELSE v

\* a chain that matches the keywords against the string as given
normalizeStatus_caseSensitive(value) ==
    IF Falsy(value) THEN <<>>
    ELSE LET v == StringOf(value)
         IN  IF includes(v, <<"r","a","t","i","f","i","c","a","t","i","o","n","-","r","e","a","d","y">>) \/ includes(v, <<"r","a","t","-","r","e","a","d","y">>)
                 THEN <<"R","a","t","i","f","i","c","a","t","i","o","n","-","R","e","a","d","y">>
             ELSE IF includes(v, <<"p","u","b","l","i","c","a","t","i","o","n">>) THEN <<"S","p","e","c","i","f","i","c","a","t","i","o","n"," ","i","n"," ","P","u","b","l","i","c","a","t","i","o","n">>
             ELSE IF includes(v, <<"f","r","e","e","z","e">>) THEN <<"F","r","e","e","z","e">>
             ELSE IF includes(v, <<"s","t","a","b","i","l","i","z","a","t","i","o","n">>) THEN <<"S","t","a","b","i","l","i","z","a","t","i","o","n">>
             ELSE IF includes(v, <<"d","e","v","e","l","o","p","m","e","n","t">>) THEN <<"D","e","v","e","l","o","p","m","e","n","t">>
             ELSE IF includes(v, <<"p","l","a","n","n","i","n","g">>) THEN <<"P","l","a","n","n","i","n","g">>
             ELSE IF includes(v, <<"i","n","c","e","p","t","i","o","n">>) THEN <<"I","n","c","e","p","t","i","o","n">>
             ELSE IF includes(v, <<"c","a","n","c","e","l","l","e","d">>) THEN <<"C","a","n","c","e","l","l","e","d">>
             ELSE v

normalizeStatus(value) ==
    IF Falsy(value) THEN <<>>
    ELSE LET v == StringOf(value)
             lower == toLowerCase(v)
         IN  IF includes(lower, <<"r","a","t","i","f","i","c","a","t","i","o","n","-","r","e","a","d","y">>) \/ includes(lower, <<"r","a","t","-","r","e","a","d","y">>)
                 THEN <<"R","a","t","i","f","i","c","a","t","i","o","n","-","R","e","a","d","y">>
             ELSE IF includes(lower, <<"s","p","e","c","i","f","i","c","a","t","i","o","n"," ","i","n"," ","p","u","b","l","i","c","a","t","i","o","n">>)
                     \/ includes(lower, <<"p","u","b","l","i","c","a","t","i","o","n">>)
                 THEN <<"S","p","e","c","i","f","i","c","a","t","i","o","n"," ","i","n"," ","P","u","b","l","i","c","a","t","i","o","n">>
             ELSE IF includes(lower, <<"f","r","e","e","z","e">>) THEN <<"F","r","e","e","z","e">>
             ELSE IF includes(lower, <<"s","t","a","b","i","l","i","z","a","t","i","o","n">>) THEN <<"S","t","a","b","i","l","i","z","a","t","i","o","n">>
             ELSE IF includes(lower, <<"u","n","d","e","r"," ","d","e","v","e","l","o","p","m","e","n","t">>)
                     \/ includes(lower, <<"d","e","v","e","l","o","p","m","e","n","t">>)
                 THEN <<"D","e","v","e","l","o","p","m","e","n","t">>
             ELSE IF includes(lower, <<"p","l","a","n","n","i","n","g">>) THEN <<"P","l","a","n","n","i","n","g">>
             ELSE IF includes(lower, <<"i","n","c","e","p","t","i","o","n">>) THEN <<"I","n","c","e","p","t","i","o","n">>
             ELSE IF includes(lower, <<"c","a","n","c","e","l","l","e","d">>) THEN <<"C","a","n","c","e","l","l","e","d">>
             ELSE v

\* WORKFLOW_PHASES[idx] for WORKFLOW_PHASES[idx + 1]
calculateProgress_offByOne(status) ==
    IF Falsy(status) THEN [currentPhase |-> <<>>, nextPhase |-> <<>>]
    ELSE LET normalized == normalizeStatus(status)
             idx == indexOf(WORKFLOW_PHASES, normalized)
         IN  IF idx = -1
             THEN [currentPhase |-> normalized, nextPhase |-> <<>>]
             ELSE [currentPhase |-> normalized,
                   nextPhase |-> IF idx + 1 < Len(WORKFLOW_PHASES)
                                 THEN WORKFLOW_PHASES[idx + 1]
                                 ELSE <<"R","a","t","i","f","i","e","d">>]

calculateProgress(status) ==
    IF Falsy(status) THEN [currentPhase |-> <<>>, nextPhase |-> <<>>]
    ELSE LET normalized == normalizeStatus(status)
             idx == indexOf(WORKFLOW_PHASES, normalized)
         IN  IF idx = -1
             THEN [currentPhase |-> normalized, nextPhase |-> <<>>]
             ELSE [currentPhase |-> normalized,
                   nextPhase |-> IF idx + 1 < Len(WORKFLOW_PHASES)
                                 THEN WORKFLOW_PHASES[idx + 2]
                                 ELSE <<"R","a","t","i","f","i","e","d">>]

\* without the trim
isBodReport_untrimmed(value) ==
    IF value.type \in {"null", "undefined"} THEN FALSE
    ELSE LET normalized == toLowerCase(StringOf(value))
         IN  IF normalized = <<>> THEN FALSE
             ELSE IF normalized \in {<<"y","e","s">>, <<"t","r","u","e">>, <<"y">>, <<"1">>} THEN TRUE
             ELSE IF normalized \in {<<"n","o">>, <<"f","a","l","s","e">>, <<"n">>, <<"0">>} THEN FALSE
             ELSE includes(normalized, <<"y","e","s">>)

isBodReport(value) ==
    IF value.type \in {"null", "undefined"} THEN FALSE
    ELSE LET normalized == toLowerCase(trim(StringOf(value)))
         IN  IF normalized = <<>> THEN FALSE
             ELSE IF normalized \in {<<"y","e","s">>, <<"t","r","u","e">>, <<"y">>, <<"1">>} THEN TRUE
             ELSE IF normalized \in {<<"n","o">>, <<"f","a","l","s","e">>, <<"n">>, <<"0">>} THEN FALSE
             ELSE includes(normalized, <<"y","e","s">>)

---------------------------------------------------------------------------
(* Quarter parsing: text.match(/(\d{2,4})\D*([1-4])/).                     *)

Digits == <<"0","1","2","3","4","5","6","7","8","9">>

IsDigit(c) == \E i \in 1..Len(Digits) : Digits[i] = c

DigitValue(c) == (CHOOSE i \in 1..Len(Digits) : Digits[i] = c) - 1

\* parseInt(digits, 10) of a run of decimal digits
RECURSIVE parseInt(_)
parseInt(ds) ==
    IF Len(ds) = 0 THEN 0
    ELSE 10 * parseInt(SubSeq(ds, 1, Len(ds) - 1)) + DigitValue(ds[Len(ds)])

\* \D* from position j: the position after the longest run of non-digits.
\* A shorter run leaves a non-digit where [1-4] must match, so backtracking
\* into the run never succeeds.
RECURSIVE SkipNonDigits(_, _)
SkipNonDigits(text, j) ==
    IF j <= Len(text) /\ ~IsDigit(text[j]) THEN SkipNonDigits(text, j + 1) ELSE j

\* the pattern matches at position i with a year group of k digits
MatchesAt(text, i, k) ==
    /\ i + k - 1 <= Len(text)
    /\ \A p \in i..(i + k - 1) : IsDigit(text[p])
    /\ LET q == SkipNonDigits(text, i + k)
       IN  q <= Len(text) /\ text[q] \in {"1", "2", "3", "4"}

\* the last place at which the pattern matches instead of the first
LeftmostGreedy_rightmost(matches) ==
    CHOOSE m \in matches :
        \A o \in matches : m[1] > o[1] \/ (m[1] = o[1] /\ m[2] >= o[2])

\* of the <<start, width of the year group>> pairs at which the pattern
\* matches, the one the regular expression engine takes: the leftmost start,
\* and there the longest year group
LeftmostGreedy(matches) ==
    CHOOSE m \in matches :
        \A o \in matches : m[1] < o[1] \/ (m[1] = o[1] /\ m[2] >= o[2])

\* the match array: match[1] and match[2]
MatchGroups(text, m) ==
    [found |-> TRUE,
     year |-> SubSeq(text, m[1], m[1] + m[2] - 1),
     qtr |-> <<text[SkipNonDigits(text, m[1] + m[2])]>>]

MatchAmong(text, matches) ==
    IF matches = {} THEN [found |-> FALSE, year |-> <<>>, qtr |-> <<>>]
    ELSE MatchGroups(text, LeftmostGreedy(matches))

\* text.match(/(\d{2,4})\D*([1-4])/)
QuarterMatch(text) ==
    MatchAmong(text,
        {m \in (1..Len(text)) \X (2..4) : MatchesAt(text, m[1], m[2])})

\* if (year < 100) year += 2000; return { year, qtr }
YearAndQuarter(year, qtr) ==
    [year |-> IF year < 100 THEN year + 2000 ELSE year, qtr |-> qtr]

QuarterOfMatch(match) ==
    IF ~match.found THEN [year |-> 9999, qtr |-> 9]
    ELSE YearAndQuarter(parseInt(match.year), parseInt(match.qtr))

parseQuarter(value) ==
    IF Falsy(value) THEN [year |-> 9999, qtr |-> 9]
    ELSE QuarterOfMatch(QuarterMatch(trim(StringOf(value))))

---------------------------------------------------------------------------
(* Row normalisation.  A raw record (one Papa.parse data object) is a      *)
(* function from the CSV columns it has to strings.                        *)

\* raw[column] || ""
Field(raw, column) == IF column \in DOMAIN raw THEN raw[column] ELSE <<>>

\* x || y on strings
OrElse(x, y) == IF x # <<>> THEN x ELSE y

normalizeRow(raw) ==
    LET status == Field(raw, "Status")
        planned == OrElse(Field(raw, "Baseline Ratification Quarter"),
                          Field(raw, "Planned Ratification Quarter"))
        trending == OrElse(Field(raw, "Target Ratification Quarter"),
                           Field(raw, "Trending Ratification Quarter"))
        bodReport == Field(raw, "BoD Report")
        progress == calculateProgress(Str(status))
    IN  [jiraUrl |-> Field(raw, "Jira URL"),
         summary |-> Field(raw, "Summary"),
         status |-> status,
         updated |-> Field(raw, "Updated"),
         isaOrNonIsa |-> Field(raw, "ISA or NON-ISA?"),
         plannedQuarter |-> planned,
         trendingQuarter |-> trending,
         ratificationProgress |-> Field(raw, "Ratification Progress"),
         previousRatificationProgress |-> Field(raw, "Previous Ratification Progress"),
         github |-> Field(raw, "GitHub"),
         bodReport |-> bodReport,
         bodFlag |-> isBodReport(Str(bodReport)),
         currentPhase |-> progress.currentPhase,
         nextPhase |-> progress.nextPhase]

---------------------------------------------------------------------------
(* The collection pipeline of fetchData: normalise, drop cancelled, sort.  *)

\* Array.prototype.map(normalizeRow)
normalized(data) == [i \in 1..Len(data) |-> normalizeRow(data[i])]

\* without the toLowerCase
isCancelled_caseSensitive(row) == includes(row.status, <<"c","a","n","c","e","l","l","e","d">>)

\* the filter's predicate, negated: the row is dropped
isCancelled(row) == includes(toLowerCase(row.status), <<"c","a","n","c","e","l","l","e","d">>)

withoutCancelled(list) == SelectSeq(list, LAMBDA row : ~isCancelled(row))

\* progressOrder[key]: an own property, or one inherited from
\* Object.prototype by the object literal (a lower-cased key can only name
\* the all-lower-case ones), or undefined
progressOrder(key) ==
    CASE key = <<"l","a","t","e">> -> Num(0)
      [] key = <<"e","x","p","o","s","e","d">> -> Num(1)
      [] key = <<"o","n"," ","t","r","a","c","k">> -> Num(2)
      [] key = <<"c","o","m","p","l","e","t","e","d">> -> Num(3)
      [] key = <<"c","o","n","s","t","r","u","c","t","o","r">> -> Obj(<<"O","b","j","e","c","t">>)
      [] key = <<"_","_","p","r","o","t","o","_","_">> -> Obj(<<"O","b","j","e","c","t",".","p","r","o","t","o","t","y","p","e">>)
      [] OTHER -> Undefined

\* x ?? y
Coalesce(x, y) == IF x.type \in {"null", "undefined"} THEN y ELSE x

\* x - y: a number when both are numbers; a function or object converts to NaN
Minus(x, y) ==
    IF x.type = "number" /\ y.type = "number" THEN Num(x.num - y.num) ELSE NaN

\* what the comparator reads of a row: progressA (progressB) and quarterA
\* (quarterB), which it computes anew at every comparison
sortKey(row) ==
    [progress |-> Coalesce(progressOrder(toLowerCase(row.ratificationProgress)),
                           Num(99)),
     quarter |-> parseQuarter(Str(row.trendingQuarter))]

\* the comparator handed to Array.prototype.sort, on the keys of a and b
comparator(a, b) ==
    IF a.progress # b.progress THEN Minus(a.progress, b.progress)
    ELSE IF a.quarter.year # b.quarter.year
         THEN Num(a.quarter.year - b.quarter.year)
    ELSE Num(a.quarter.qtr - b.quarter.qtr)

\* a number as it is, NaN as +0
NaNAsZero(v) == IF v.type = "NaN" THEN 0 ELSE v.num

\* ECMAScript SortCompare
SortCompare(a, b) == NaNAsZero(comparator(a, b))

SortCompareTable(keys) ==
    [i \in DOMAIN keys, j \in DOMAIN keys |-> SortCompare(keys[i], keys[j])]

\* SortCompare for every pair of positions of the list
CompareTable(list) ==
    SortCompareTable([i \in 1..Len(list) |-> sortKey(list[i])])

\* ECMAScript: the comparator is a consistent comparator for the elements
ConsistentComparator(cmp, n) ==
    /\ \A a \in 1..n : cmp[a, a] = 0
    /\ \A a, b \in 1..n :
          /\ (cmp[a, b] < 0) = (cmp[b, a] > 0)
          /\ (cmp[a, b] = 0) = (cmp[b, a] = 0)
    /\ \A a, b, c \in 1..n :
          /\ cmp[a, b] = 0 /\ cmp[b, c] = 0 => cmp[a, c] = 0
          /\ cmp[a, b] < 0 /\ cmp[b, c] < 0 => cmp[a, c] < 0
          /\ cmp[a, b] < 0 /\ cmp[b, c] = 0 => cmp[a, c] < 0
          /\ cmp[a, b] = 0 /\ cmp[b, c] < 0 => cmp[a, c] < 0

IndexPermutations(n) ==
    {p \in [1..n -> 1..n] : \A i, j \in 1..n : i # j => p[i] # p[j]}

\* where a stable ascending sort puts element i
StablePosition(cmp, n, i) ==
    1 + Cardinality({j \in 1..n : cmp[j, i] < 0 \/ (cmp[j, i] = 0 /\ j < i)})

\* Array.prototype.sort(comparator): with a consistent comparator the one
\* stable ascending order; otherwise the order is implementation-defined,
\* any permutation of the elements
SortWith(list, n, cmp) ==
    IF ConsistentComparator(cmp, n)
    THEN {[k \in 1..n |->
              list[CHOOSE i \in 1..n : StablePosition(cmp, n, i) = k]]}
    ELSE {[k \in 1..n |-> list[p[k]]] : p \in IndexPermutations(n)}

\* (the table is bound by a set constructor so that it is computed once)
SortOutcomes(list) ==
    UNION {SortWith(list, Len(list), cmp) : cmp \in {CompareTable(list)}}

\* the values `sorted` can take for a parsed CSV
Pipeline(data) == SortOutcomes(withoutCancelled(normalized(data)))

\* the two predicates joined by || instead of &&
displayRows_either ==
    LET term == toLowerCase(trim(searchTerm))
    IN  SelectSeq(rows, LAMBDA row :
            LET summary == toLowerCase(row.summary)
                matchesSearch == term = <<>> \/ includes(summary, term)
                matchesBod == ~bodOnly \/ row.bodFlag
            IN  matchesSearch \/ matchesBod)

\* useMemo(..., [rows, searchTerm, bodOnly])
displayRows ==
    LET term == toLowerCase(trim(searchTerm))
    IN  SelectSeq(rows, LAMBDA row :
            LET summary == toLowerCase(row.summary)
                matchesSearch == term = <<>> \/ includes(summary, term)
                matchesBod == ~bodOnly \/ row.bodFlag
            IN  matchesSearch /\ matchesBod)

---------------------------------------------------------------------------
(* Direct calls of the pure functions.                                     *)

NoCall == [fn |-> "none", res |-> <<>>]

RECURSIVE Concats(_, _)
\* the strings made of at most n fragments
Concats(fragments, n) ==
    IF n = 0 THEN {<<>>}
    ELSE LET shorter == Concats(fragments, n - 1)
         IN  shorter \cup {s \o f : s \in shorter, f \in fragments}

StatusFragments ==
    { <<"P","l","a","n","n","i","n","g">>, <<"P","L","A","N","N","I","N","G">>, <<"F","r","e","e","z","e">>, <<"r","a","t","-","r","e","a","d","y">>, <<"R","a","t","i","f","i","c","a","t","i","o","n","-","R","e","a","d","y">>,
      <<"S","p","e","c","i","f","i","c","a","t","i","o","n"," ","i","n"," ","P","u","b","l","i","c","a","t","i","o","n">>, <<"p","u","b","l","i","c","a","t","i","o","n">>, <<"S","t","a","b","i","l","i","z","a","t","i","o","n">>,
      <<"U","n","d","e","r"," ","D","e","v","e","l","o","p","m","e","n","t">>, <<"I","n","c","e","p","t","i","o","n">>, <<"C","A","N","C","E","L","L","E","D">>, <<"R","a","t","i","f","i","e","d">>,
      <<"P","l","a","n">>, <<" ">> }

BodFragments ==
    { <<"y","e","s">>, <<"Y","e","s">>, <<"y">>, <<"Y">>, <<"t","r","u","e">>, <<"1">>, <<"n","o">>, <<"N">>, <<"f","a","l","s","e">>, <<"0">>,
      <<"m","a","y","b","e">>, <<"i","s","h">>, <<" ">> }

QuarterFragments ==
    { <<"Q","3"," ","2","5">>, <<"2","5","Q","1">>, <<"2","0","2","5">>, <<"1","2">>, <<"0">>, <<"3">>, <<"5">>, <<"Q">>, <<" ">>, <<"-">>,
      <<"n","o"," ","q","u","a","r","t","e","r"," ","i","n","f","o">> }

Arguments ==
    {Null, Undefined}
        \cup {Str(s) : s \in Concats(StatusFragments, MaxParts)}
        \cup {Str(s) : s \in Concats(BodFragments, MaxParts)}
        \cup {Str(s) : s \in Concats(QuarterFragments, MaxParts)}

CallNormalizeStatus ==
    /\ out' = [fn |-> "normalizeStatus", res |-> normalizeStatus(arg)]
    /\ UNCHANGED <<arg, appVars>>

CallCalculateProgress ==
    /\ out' = [fn |-> "calculateProgress", res |-> calculateProgress(arg)]
    /\ UNCHANGED <<arg, appVars>>

CallIsBodReport ==
    /\ out' = [fn |-> "isBodReport", res |-> isBodReport(arg)]
    /\ UNCHANGED <<arg, appVars>>

\* normalizeRow of a record whose Status and BoD Report columns hold the
\* argument (no columns at all for null and undefined)
RawOf(value) ==
    IF value.type = "string"
    THEN "Status" :> value.str @@ "BoD Report" :> value.str
    ELSE [column \in {} |-> <<>>]

CallNormalizeRow ==
    /\ out' = [fn |-> "normalizeRow", res |-> normalizeRow(RawOf(arg))]
    /\ UNCHANGED <<arg, appVars>>

CallParseQuarter ==
    /\ out' = [fn |-> "parseQuarter", res |-> parseQuarter(arg)]
    /\ UNCHANGED <<arg, appVars>>

InitApp ==
    /\ rows = <<>>
    /\ loading = TRUE
    /\ error = <<>>
    /\ searchTerm = <<>>
    /\ bodOnly = FALSE
    /\ lastUpdated = 0
    /\ loads = <<>>

InitCalls ==
    /\ InitApp
    /\ dev = FALSE
    /\ localCsvUrl = FALSE
    /\ arg \in Arguments
    /\ out = NoCall

NextCalls ==
    \/ CallNormalizeStatus
    \/ CallCalculateProgress
    \/ CallIsBodReport
    \/ CallNormalizeRow
    \/ CallParseQuarter

SpecCalls == InitCalls /\ [][NextCalls]_vars

---------------------------------------------------------------------------
(* The data-load effect of App: one load per run of the effect.            *)

\* a response body: "" or a CSV document (header line and records), given
\* as what Papa.parse makes of it
NoText == [empty |-> TRUE, data |-> <<>>]
Text(data) == [empty |-> FALSE, data |-> data]

\* what a fetch comes to: response.ok with a body, a response that is not
\* ok (its status in the message), or a rejected promise (its message)
Ok(text) == [kind |-> "ok", text |-> text, message |-> <<>>]
NotOk(status) == [kind |-> "notok", text |-> NoText, message |-> status]
Throws(message) == [kind |-> "throw", text |-> NoText, message |-> message]

Responses(texts) ==
    {Ok(t) : t \in texts}
        \cup {NotOk(<<"4","0","4">>), NotOk(<<"4","0","3">>)}
        \cup {Throws(<<"F","a","i","l","e","d"," ","t","o"," ","f","e","t","c","h">>), Throws(<<>>)}

\* the loads whose fetch of this source is in flight
Awaiting(pc) == {i \in 1..Len(loads) : loads[i].pc = pc}

\* the effect of the newest run has not been cleaned up
Mounted == loads # <<>> /\ loads[Len(loads)].isMounted

\* useEffect(() => { let isMounted = true; ... fetchData(); ... }, []):
\* fetchData runs up to its first await
Mount ==
    /\ Len(loads) < MaxLoads
    /\ ~Mounted
    /\ loading' = TRUE
    /\ error' = <<>>
    /\ loads' = Append(loads,
                    [pc |-> IF dev /\ localCsvUrl THEN "local" ELSE "deployed",
                     isMounted |-> TRUE,
                     csvText |-> NoText])
    /\ UNCHANGED <<rows, searchTerm, bodOnly, lastUpdated, dev, localCsvUrl, arg, out>>

\* the effect's clean-up: isMounted = false
Cleanup ==
    /\ Mounted
    /\ loads' = [loads EXCEPT ![Len(loads)].isMounted = FALSE]
    /\ UNCHANGED <<rows, loading, error, searchTerm, bodOnly, lastUpdated,
                   dev, localCsvUrl, arg, out>>

\* without the isMounted test around setRows and setLastUpdated
publish_unguarded(i, csvText) ==
    \E sorted \in Pipeline(csvText.data) :
        /\ loads' = [loads EXCEPT ![i].pc = "done", ![i].csvText = csvText]
        /\ rows' = sorted
        /\ lastUpdated' = i
        /\ IF loads[i].isMounted THEN loading' = FALSE ELSE UNCHANGED loading
        /\ UNCHANGED <<error, searchTerm, bodOnly, dev, localCsvUrl, arg, out>>

\* fetchData from Papa.parse to the end of finally, for a load that holds csvText
publish(i, csvText) ==
    \E sorted \in Pipeline(csvText.data) :
        /\ loads' = [loads EXCEPT ![i].pc = "done", ![i].csvText = csvText]
        /\ IF loads[i].isMounted
           THEN /\ rows' = sorted
                /\ lastUpdated' = i
                /\ loading' = FALSE
           ELSE UNCHANGED <<rows, lastUpdated, loading>>
        /\ UNCHANGED <<error, searchTerm, bodOnly, dev, localCsvUrl, arg, out>>

\* without the finally block: setLoading(false) only after a success
fail_withoutFinally(i, message) ==
    /\ loads' = [loads EXCEPT ![i].pc = "failed"]
    /\ IF loads[i].isMounted
       THEN error' = OrElse(message, <<"F","a","i","l","e","d"," ","t","o"," ","l","o","a","d"," ","d","a","t","a",".">>)
       ELSE UNCHANGED error
    /\ UNCHANGED <<rows, loading, lastUpdated, searchTerm, bodOnly, dev,
                   localCsvUrl, arg, out>>

\* fetchData's catch and finally, for an error with this message
fail(i, message) ==
    /\ loads' = [loads EXCEPT ![i].pc = "failed"]
    /\ IF loads[i].isMounted
       THEN /\ error' = OrElse(message, <<"F","a","i","l","e","d"," ","t","o"," ","l","o","a","d"," ","d","a","t","a",".">>)
            /\ loading' = FALSE
       ELSE UNCHANGED <<error, loading>>
    /\ UNCHANGED <<rows, lastUpdated, searchTerm, bodOnly, dev, localCsvUrl, arg, out>>

\* the load goes on to its next source
goto(i, pc) ==
    /\ loads' = [loads EXCEPT ![i].pc = pc]
    /\ UNCHANGED <<rows, loading, error, searchTerm, bodOnly, lastUpdated,
                   dev, localCsvUrl, arg, out>>

\* tryFetchCsv: the body of an ok response, "" otherwise
tryFetchCsv(response) == IF response.kind = "ok" THEN response.text ELSE NoText

\* csvText = await tryFetchCsv(LOCAL_CSV_URL, "Local CSV") returns
LocalCsvResponse(i, response) ==
    /\ i \in Awaiting("local")
    /\ LET csvText == tryFetchCsv(response)
       IN  IF ~csvText.empty THEN publish(i, csvText) ELSE goto(i, "deployed")

\* without tryFetchCsv's catch: a rejected fetch ends the load
DeployedCsvResponse_uncaught(i, response) ==
    /\ i \in Awaiting("deployed")
    /\ IF response.kind = "throw" THEN fail(i, response.message)
       ELSE IF ~response.text.empty THEN publish(i, response.text)
       ELSE goto(i, "release")

\* csvText = await tryFetchCsv(latestCsvUrl, "Deployed CSV") returns
DeployedCsvResponse(i, response) ==
    /\ i \in Awaiting("deployed")
    /\ LET csvText == tryFetchCsv(response)
       IN  IF ~csvText.empty THEN publish(i, csvText) ELSE goto(i, "release")

\* fetchCsvFromRelease: the request for releases/latest returns; hasAsset
\* says whether an asset named specs_*.csv with an id is listed
ReleaseResponse(i, response, hasAsset) ==
    /\ i \in Awaiting("release")
    /\ CASE response.kind = "throw" -> fail(i, response.message)
         [] response.kind = "notok" ->
                fail(i, <<"F","a","i","l","e","d"," ","t","o"," ","f","e","t","c","h"," ","r","e","l","e","a","s","e",":"," ">> \o response.message)
         [] OTHER ->
                IF hasAsset THEN goto(i, "asset")
                ELSE fail(i, <<"N","o"," ","C","S","V"," ","a","s","s","e","t","s"," ","f","o","u","n","d"," ","i","n"," ","t","h","e"," ","l","a","t","e","s","t"," ","r","e","l","e","a","s","e",".">>)

\* fetchCsvFromRelease: the request for the asset returns
AssetResponse(i, response) ==
    /\ i \in Awaiting("asset")
    /\ CASE response.kind = "throw" -> fail(i, response.message)
         [] response.kind = "notok" ->
                fail(i, <<"F","a","i","l","e","d"," ","t","o"," ","d","o","w","n","l","o","a","d"," ","C","S","V",":"," ">> \o response.message)
         [] OTHER -> publish(i, response.text)

\* a handler that narrows the base collection itself
setSearchTerm_narrowing(value) ==
    /\ searchTerm' = value
    /\ rows' = SelectSeq(rows, LAMBDA row :
                   includes(toLowerCase(row.summary), toLowerCase(trim(value))))
    /\ UNCHANGED <<loading, error, bodOnly, lastUpdated, loads,
                   dev, localCsvUrl, arg, out>>

\* onChange of #searchInput
setSearchTerm(value) ==
    /\ searchTerm' = value
    /\ UNCHANGED <<rows, loading, error, bodOnly, lastUpdated, loads,
                   dev, localCsvUrl, arg, out>>

\* onChange of the bod-toggle checkbox
setBodOnly(checked) ==
    /\ bodOnly' = checked
    /\ UNCHANGED <<rows, loading, error, searchTerm, lastUpdated, loads,
                   dev, localCsvUrl, arg, out>>

---------------------------------------------------------------------------
(* CSV records and documents the specifications draw from.                 *)

LateFreeze ==
    "Summary" :> <<"F","p">> @@ "Status" :> <<"F","r","e","e","z","e">>
        @@ "Target Ratification Quarter" :> <<"2","0","2","6"," ","Q","1">>
        @@ "Ratification Progress" :> <<"L","a","t","e">> @@ "BoD Report" :> <<"Y","e","s">>

OnTrackDevelopment ==
    "Summary" :> <<"f","p","1","6">> @@ "Status" :> <<"U","n","d","e","r"," ","D","e","v","e","l","o","p","m","e","n","t">>
        @@ "Target Ratification Quarter" :> <<"2","0","2","5"," ","Q","4">>
        @@ "Ratification Progress" :> <<"O","n"," ","T","r","a","c","k">> @@ "BoD Report" :> <<"n","o">>

\* the same rank and quarter as OnTrackDevelopment, from the older column
OnTrackPlanning ==
    "Summary" :> <<"V","e","c">> @@ "Status" :> <<"P","l","a","n","n","i","n","g">>
        @@ "Target Ratification Quarter" :> <<>>
        @@ "Trending Ratification Quarter" :> <<"2","5","-","Q","4">>
        @@ "Ratification Progress" :> <<"o","n"," ","t","r","a","c","k">> @@ "BoD Report" :> <<" ","Y"," ">>

CancelledLate ==
    "Summary" :> <<"f","p">> @@ "Status" :> <<"N","o","w"," ","C","A","N","C","E","L","L","E","D">>
        @@ "Target Ratification Quarter" :> <<"2","0","2","5"," ","Q","1">>
        @@ "Ratification Progress" :> <<"l","a","t","e">> @@ "BoD Report" :> <<"y","e","s">>

ConstructorInception ==
    "Summary" :> <<"x">> @@ "Status" :> <<"I","n","c","e","p","t","i","o","n">>
        @@ "Target Ratification Quarter" :> <<"Q","3"," ","2","5">>
        @@ "Ratification Progress" :> <<"C","o","n","s","t","r","u","c","t","o","r">> @@ "BoD Report" :> <<"m","a","y","b","e">>

\* a record with one column only
Bare == "Summary" :> <<"v">>

RawPool ==
    {LateFreeze, OnTrackDevelopment, OnTrackPlanning, CancelledLate,
     ConstructorInception, Bare}

RECURSIVE SeqsUpTo(_, _)
\* the sequences of at most n members of S
SeqsUpTo(S, n) ==
    IF n = 0 THEN {<<>>}
    ELSE LET shorter == SeqsUpTo(S, n - 1)
         IN  shorter \cup {Append(s, x) : s \in shorter, x \in S}

\* two rows that tie on rank and quarter, behind a row whose label names an
\* inherited property and a row that sorts before both
TieDocument ==
    <<ConstructorInception, LateFreeze, OnTrackDevelopment, OnTrackPlanning>>

Snapshots == SeqsUpTo(RawPool, MaxRows) \cup {TieDocument}

SearchTerms == {<<>>, <<"f","p">>, <<"F","P"," ">>, <<" ">>, <<"V">>}

\* the bodies the sources of the App specification answer with
AppTexts ==
    {NoText,
     Text(<<OnTrackDevelopment, CancelledLate, LateFreeze>>),
     Text(<<OnTrackPlanning>>)}

\* what a request for a CSV comes to
AppResponses == Responses(AppTexts)

AppSearchTerms == {<<>>, <<"f","p"," ">>}

---------------------------------------------------------------------------
(* The App: loads started, cleaned up and answered in any order.           *)

Init ==
    /\ InitApp
    /\ dev \in BOOLEAN
    /\ localCsvUrl \in BOOLEAN
    /\ arg = Undefined
    /\ out = NoCall

Next ==
    \/ Mount
    \/ Cleanup
    \/ \E i \in Awaiting("local"), response \in Responses(AppTexts) :
           LocalCsvResponse(i, response)
    \/ \E i \in Awaiting("deployed"), response \in Responses(AppTexts) :
           DeployedCsvResponse(i, response)
    \/ \E i \in Awaiting("release"), response \in Responses({NoText}),
             hasAsset \in BOOLEAN :
           ReleaseResponse(i, response, hasAsset)
    \/ \E i \in Awaiting("asset"), response \in Responses(AppTexts) :
           AssetResponse(i, response)
    \/ \E value \in AppSearchTerms : setSearchTerm(value)
    \/ \E checked \in BOOLEAN : setBodOnly(checked)

Spec == Init /\ [][Next]_vars

---------------------------------------------------------------------------
(* The pipeline: one load of a production build whose deployed latest.csv  *)
(* is any snapshot, then any search term and toggle.                       *)

InitPipeline ==
    /\ InitApp
    /\ dev = FALSE
    /\ localCsvUrl = FALSE
    /\ arg = Undefined
    /\ out = NoCall

NextPipeline ==
    \/ loads = <<>> /\ Mount
    \/ \E i \in Awaiting("deployed"), data \in Snapshots :
           DeployedCsvResponse(i, Ok(Text(data)))
    \/ \E value \in SearchTerms : setSearchTerm(value)
    \/ \E checked \in BOOLEAN : setBodOnly(checked)

SpecPipeline == InitPipeline /\ [][NextPipeline]_vars

---------------------------------------------------------------------------
(* Properties of the collection pipeline (SpecPipeline).                   *)

\* some row of the list has a raw status containing "cancelled", in any case
HasCancelled(list) ==
    \E i \in 1..Len(list) : includes(toLowerCase(list[i].status), <<"c","a","n","c","e","l","l","e","d">>)

\* C1: for every loaded snapshot, search term and toggle, no row whose raw
\* status contains "cancelled" (case-insensitively) is in rows or displayRows.
C1_NoCancelledRows == ~HasCancelled(rows) /\ ~HasCancelled(displayRows)

\* a snapshot with a cancelled record was loaded and is shown filtered
C1_Witness ==
    /\ Len(loads) = 1
    /\ loads[1].pc = "done"
    /\ \E k \in 1..Len(loads[1].csvText.data) :
           includes(toLowerCase(Field(loads[1].csvText.data[k], "Status")),
                    <<"c","a","n","c","e","l","l","e","d">>)
    /\ searchTerm # <<>>
    /\ bodOnly
    /\ displayRows # <<>>

\* the progress rank the specification gives a label
ClaimedRank(row) ==
    LET label == toLowerCase(row.ratificationProgress)
    IN  CASE label = <<"l","a","t","e">> -> 0
          [] label = <<"e","x","p","o","s","e","d">> -> 1
          [] label = <<"o","n"," ","t","r","a","c","k">> -> 2
          [] label = <<"c","o","m","p","l","e","t","e","d">> -> 3
          [] OTHER -> 99

ClaimedQuarter(row) == parseQuarter(Str(row.trendingQuarter))

\* a may stand before b: a lower rank, or the same rank and (year, qtr) not later
InOrder(a, b) ==
    \/ ClaimedRank(a) < ClaimedRank(b)
    \/ /\ ClaimedRank(a) = ClaimedRank(b)
       /\ \/ ClaimedQuarter(a).year < ClaimedQuarter(b).year
          \/ /\ ClaimedQuarter(a).year = ClaimedQuarter(b).year
             /\ ClaimedQuarter(a).qtr <= ClaimedQuarter(b).qtr

\* C2: after a successful load rows is ordered by progress rank ascending
\* and, among equal ranks, by parseQuarter(trendingQuarter) ascending.
C2_SortedByRankThenQuarter ==
    \A i, j \in 1..Len(rows) : i < j => InOrder(rows[i], rows[j])

FullTie(a, b) ==
    ClaimedRank(a) = ClaimedRank(b) /\ ClaimedQuarter(a) = ClaimedQuarter(b)

\* rows is a rearrangement of the input that keeps every full tie in order
StableRearrangement(input) ==
    /\ Len(rows) = Len(input)
    /\ \E p \in IndexPermutations(Len(input)) :
          /\ \A k \in 1..Len(input) : rows[k] = input[p[k]]
          /\ \A k, l \in 1..Len(input) :
                k < l /\ FullTie(input[p[k]], input[p[l]]) => p[k] < p[l]

\* C3: the sort is stable: two non-cancelled rows with the same progress
\* rank and the same parsed quarter keep the relative order of the CSV input.
C3_StableSort ==
    Len(loads) = 1 /\ loads[1].pc = "done"
        => \A input \in {withoutCancelled(normalized(loads[1].csvText.data))} :
               StableRearrangement(input)

\* the indexes of the rows that pass both predicates, the search term
\* compared as `term`
Matching(term) ==
    {i \in 1..Len(rows) :
        /\ term = <<>> \/ includes(toLowerCase(rows[i].summary), term)
        /\ ~bodOnly \/ rows[i].bodFlag}

\* the view holds exactly the rows at these indexes, in the order of rows
ViewIs(M) ==
    /\ Len(displayRows) = Cardinality(M)
    /\ \A k \in 1..Len(displayRows) :
          displayRows[k]
              = rows[CHOOSE i \in M : Cardinality({j \in M : j < i}) = k - 1]

\* C5 as stated: displayRows holds exactly the rows of rows, in the same
\* order, whose lower-cased summary contains the lower-cased search term
\* (or the term is empty) and whose bodFlag is true (or the toggle is off).
C5_ViewOfUntrimmedTerm == ViewIs(Matching(toLowerCase(searchTerm)))

\* C5, amended: the same with the search term trimmed of surrounding white
\* space before it is lower-cased, compared and tested for emptiness.
C5_ViewOfTrimmedTerm == ViewIs(Matching(toLowerCase(trim(searchTerm))))

\* both predicates are on and the view keeps some rows and drops others
C5_Witness ==
    /\ searchTerm # <<>>
    /\ bodOnly
    /\ displayRows # <<>>
    /\ Len(displayRows) < Len(rows)
    /\ \E i \in 1..Len(rows) : rows[i].bodFlag /\ i \notin Matching(toLowerCase(trim(searchTerm)))
    /\ \E i \in 1..Len(rows) : ~rows[i].bodFlag

---------------------------------------------------------------------------
(* Properties of the App (Spec).                                           *)

\* load i takes a step
Acts(i) == loads'[i].pc # loads[i].pc

\* C4: across any interleaving of loads, an older load never overwrites the
\* rows of a newer one, rows is only ever replaced as a whole by one load's
\* complete sorted collection, and a load whose effect has been cleaned up
\* sets none of rows, lastUpdated, error and loading.
C4_LoadsDoNotInterfere ==
    [][/\ rows' # rows
            => \E i \in 1..Len(loads) :
                   /\ Acts(i)
                   /\ i = Len(loads)
                   /\ loads[i].isMounted
                   /\ loads'[i].pc = "done"
                   /\ rows' \in Pipeline(loads'[i].csvText.data)
       /\ \A i \in 1..Len(loads) :
              Acts(i) /\ ~loads[i].isMounted
                  => UNCHANGED <<rows, lastUpdated, error, loading>>
      ]_vars

\* a cleaned-up load and its successor both got a snapshot, and rows is the
\* successor's, which is not what the cleaned-up load would have set
C4_Witness ==
    /\ Len(loads) = 2
    /\ loads[1].pc = "done" /\ ~loads[1].isMounted
    /\ loads[2].pc = "done"
    /\ rows # <<>>
    /\ rows \in Pipeline(loads[2].csvText.data)
    /\ rows \notin Pipeline(loads[1].csvText.data)
    /\ lastUpdated = 2

\* C6: changing the search term or the toggle leaves rows unchanged; rows
\* changes only when a snapshot load completes; with the term cleared and
\* the toggle off displayRows is rows again.
C6_ViewLeavesBase ==
    /\ [][/\ searchTerm' # searchTerm \/ bodOnly' # bodOnly => rows' = rows
          /\ rows' # rows
                => \E i \in 1..Len(loads) : Acts(i) /\ loads'[i].pc = "done"
         ]_vars
    /\ [](searchTerm = <<>> /\ ~bodOnly => displayRows = rows)

\* the view is narrowed by both predicates while the base keeps its rows
C6_Witness ==
    /\ searchTerm # <<>>
    /\ bodOnly
    /\ Len(rows) > 1
    /\ Len(displayRows) < Len(rows)

---------------------------------------------------------------------------
(* Properties of the pure functions (SpecCalls).                           *)

\* the chain as the specification lists it: rule, keywords, result
StatusRules ==
    << [keywords |-> {<<"r","a","t","i","f","i","c","a","t","i","o","n","-","r","e","a","d","y">>, <<"r","a","t","-","r","e","a","d","y">>},
        result |-> <<"R","a","t","i","f","i","c","a","t","i","o","n","-","R","e","a","d","y">>],
       [keywords |-> {<<"p","u","b","l","i","c","a","t","i","o","n">>}, result |-> <<"S","p","e","c","i","f","i","c","a","t","i","o","n"," ","i","n"," ","P","u","b","l","i","c","a","t","i","o","n">>],
       [keywords |-> {<<"f","r","e","e","z","e">>}, result |-> <<"F","r","e","e","z","e">>],
       [keywords |-> {<<"s","t","a","b","i","l","i","z","a","t","i","o","n">>}, result |-> <<"S","t","a","b","i","l","i","z","a","t","i","o","n">>],
       [keywords |-> {<<"d","e","v","e","l","o","p","m","e","n","t">>}, result |-> <<"D","e","v","e","l","o","p","m","e","n","t">>],
       [keywords |-> {<<"p","l","a","n","n","i","n","g">>}, result |-> <<"P","l","a","n","n","i","n","g">>],
       [keywords |-> {<<"i","n","c","e","p","t","i","o","n">>}, result |-> <<"I","n","c","e","p","t","i","o","n">>],
       [keywords |-> {<<"c","a","n","c","e","l","l","e","d">>}, result |-> <<"C","a","n","c","e","l","l","e","d">>] >>

\* a keyword of rule r is a substring of the lower-cased string
RuleApplies(r, s) ==
    \E keyword \in StatusRules[r].keywords : includes(toLowerCase(s), keyword)

\* the result of the earliest rule that applies, the string itself if none does
FirstMatch(s) ==
    IF \E r \in 1..Len(StatusRules) : RuleApplies(r, s)
    THEN StatusRules[CHOOSE r \in 1..Len(StatusRules) :
                         /\ RuleApplies(r, s)
                         /\ \A q \in 1..(r - 1) : ~RuleApplies(q, s)].result
    ELSE s

\* the argument is null, undefined or the empty string
EmptyArgument == arg.type # "string" \/ arg.str = <<>>

\* C7: normalizeStatus is a first-match-wins chain over the lower-cased
\* input in the order of the eight rules; the input is returned unchanged
\* when no keyword is contained, and empty or null input gives "".
C7_FirstMatchWins ==
    out.fn = "normalizeStatus"
        => out.res = IF EmptyArgument THEN <<>> ELSE FirstMatch(arg.str)

\* a string with the keywords of rules 3 and 6 came out as rule 3's result
C7_Witness ==
    /\ out.fn = "normalizeStatus"
    /\ arg.type = "string"
    /\ RuleApplies(3, arg.str)
    /\ RuleApplies(6, arg.str)
    /\ out.res = <<"F","r","e","e","z","e">>

\* C8 as stated: every string containing "planning" in any letter case is
\* normalised to "Planning".
C8_PlanningAlways ==
    out.fn = "normalizeStatus" /\ arg.type = "string" /\ RuleApplies(6, arg.str)
        => out.res = <<"P","l","a","n","n","i","n","g">>

\* C8, amended: every string that contains "planning" in any letter case and
\* no keyword of the five rules before it (ratification-ready, rat-ready,
\* publication, freeze, stabilization, development) is normalised to
\* "Planning".
C8_PlanningUnlessEarlierRule ==
    (/\ out.fn = "normalizeStatus"
     /\ arg.type = "string"
     /\ RuleApplies(6, arg.str)
     /\ \A r \in 1..5 : ~RuleApplies(r, arg.str))
        => out.res = <<"P","l","a","n","n","i","n","g">>

\* "planning" in upper case beside a keyword of a later rule gave "Planning"
C8_Witness ==
    /\ out.fn = "normalizeStatus"
    /\ arg.type = "string"
    /\ includes(arg.str, <<"P","L","A","N","N","I","N","G">>)
    /\ RuleApplies(8, arg.str)
    /\ out.res = <<"P","l","a","n","n","i","n","g">>

\* the phase after a current phase, as the specification gives it
ClaimedNextPhase(currentPhase) ==
    IF \E i \in 1..(Len(WORKFLOW_PHASES) - 1) : WORKFLOW_PHASES[i] = currentPhase
    THEN WORKFLOW_PHASES[1 + CHOOSE i \in 1..(Len(WORKFLOW_PHASES) - 1) :
                                 WORKFLOW_PHASES[i] = currentPhase]
    ELSE IF currentPhase = WORKFLOW_PHASES[Len(WORKFLOW_PHASES)] THEN <<"R","a","t","i","f","i","e","d">>
    ELSE <<>>

\* nextPhase is a workflow phase at or before currentPhase
NotLater(nextPhase, currentPhase) ==
    \E i, j \in 1..Len(WORKFLOW_PHASES) :
        i <= j /\ WORKFLOW_PHASES[i] = nextPhase /\ WORKFLOW_PHASES[j] = currentPhase

PhasesAsClaimed ==
    /\ out.res.currentPhase = normalizeStatus(arg)
    /\ out.res.nextPhase = ClaimedNextPhase(out.res.currentPhase)
    /\ ~NotLater(out.res.nextPhase, out.res.currentPhase)

\* C9 as stated: currentPhase = normalizeStatus(status); nextPhase is the
\* next workflow phase, "Ratified" after the last, "" otherwise; nextPhase is
\* never equal to currentPhase nor an earlier workflow phase.
C9_NextNeverCurrent ==
    out.fn = "calculateProgress"
        => PhasesAsClaimed /\ out.res.nextPhase # out.res.currentPhase

\* C9, amended: the same, except that nextPhase equals currentPhase when,
\* and only when, both are "" (an empty or missing status).
C9_NextNeverCurrentUnlessEmpty ==
    out.fn = "calculateProgress"
        => /\ PhasesAsClaimed
           /\ out.res.nextPhase = out.res.currentPhase
                  <=> out.res.currentPhase = <<>>

\* a status in the middle of the workflow got its successor
C9_Witness ==
    /\ out.fn = "calculateProgress"
    /\ arg = Str(<<"U","n","d","e","r"," ","D","e","v","e","l","o","p","m","e","n","t">>)
    /\ out.res = [currentPhase |-> <<"D","e","v","e","l","o","p","m","e","n","t">>, nextPhase |-> <<"S","t","a","b","i","l","i","z","a","t","i","o","n">>]

\* the flag the specification gives a raw value
ClaimedBodFlag(value) ==
    /\ value.type = "string"
    /\ \E t \in {toLowerCase(trim(value.str))} :
          \/ t \in {<<"y","e","s">>, <<"t","r","u","e">>, <<"y">>, <<"1">>}
          \/ t \notin {<<"n","o">>, <<"f","a","l","s","e">>, <<"n">>, <<"0">>} /\ includes(t, <<"y","e","s">>)

\* C10: isBodReport gives false for null, undefined and empty-after-trim,
\* true for yes/true/y/1, false for no/false/n/0 (trimmed, any case), and
\* otherwise true iff the value contains "yes"; so "Yes" and "yesish" give
\* true, "N" and "maybe" false, and a row's bodFlag is isBodReport of its
\* raw "BoD Report" field.
C10_BodFlag ==
    /\ out.fn = "isBodReport"
          => /\ out.res = ClaimedBodFlag(arg)
             /\ arg \in {Str(<<"Y","e","s">>), Str(<<"y","e","s","i","s","h">>)} => out.res = TRUE
             /\ arg \in {Str(<<"N">>), Str(<<"m","a","y","b","e">>)} => out.res = FALSE
    /\ out.fn = "normalizeRow" => out.res.bodFlag = ClaimedBodFlag(arg)

\* a value outside both lists that contains "yes" was flagged
C10_Witness ==
    out.fn = "isBodReport" /\ arg = Str(<<"y","e","s","i","s","h">>) /\ out.res = TRUE


\* C11: parseQuarter("Q3 25") returns {year: 2025, qtr: 3}: the quarter
\* digit followed by a 2-digit year is parsed, not given the sentinel.
C11_QuarterBeforeYear ==
    out.fn = "parseQuarter" /\ arg = Str(<<"Q","3"," ","2","5">>)
        => out.res = [year |-> 2025, qtr |-> 3]

\* in text, a run of n digits starts at i and, after non-digits only, a
\* digit 1-4 stands at j
ClaimedMatch(text, i, n, j) ==
    /\ n \in 2..4
    /\ i + n <= j /\ j <= Len(text)
    /\ \A p \in i..(i + n - 1) : IsDigit(text[p])
    /\ \A p \in (i + n)..(j - 1) : ~IsDigit(text[p])
    /\ text[j] \in {"1", "2", "3", "4"}

ClaimedMatches(text) ==
    {m \in (1..Len(text)) \X (2..4) \X (1..Len(text)) :
        ClaimedMatch(text, m[1], m[2], m[3])}

\* the first match: the leftmost start and, the year group being greedy,
\* the longest run there
FirstClaimedMatch(matches) ==
    CHOOSE m \in matches :
        \A o \in matches : m[1] < o[1] \/ (m[1] = o[1] /\ m[2] >= o[2])

\* the digits of the matched year, read as a decimal number
MatchedYear(text, m) == parseInt(SubSeq(text, m[1], m[1] + m[2] - 1))

\* the result claimed for a match whose year gets 2000 added under `century`
ClaimedQuarterOf(text, m, century) ==
    [year |-> IF century THEN MatchedYear(text, m) + 2000 ELSE MatchedYear(text, m),
     qtr |-> parseInt(<<text[m[3]]>>)]

\* C12 as stated: the sentinel exactly when the text is empty or missing or
\* has no run of 2 to 4 digits followed, after non-digits, by a digit 1-4;
\* otherwise the year and quarter of the first match, qtr in 1..4, with 2000
\* added to a two-digit matched year and a 3- or 4-digit matched year
\* returned as written.
C12_CenturyForTwoDigits ==
    out.fn = "parseQuarter"
        => IF arg.type # "string" \/ ClaimedMatches(arg.str) = {}
           THEN out.res = [year |-> 9999, qtr |-> 9]
           ELSE \A m \in {FirstClaimedMatch(ClaimedMatches(arg.str))} :
                    /\ out.res = ClaimedQuarterOf(arg.str, m, m[2] = 2)
                    /\ out.res.qtr \in 1..4

\* C12, amended: the same, with 2000 added whenever the matched year read as
\* a number is below 100 (every two-digit year, and a 3- or 4-digit year
\* written with leading zeros), and the year returned as written otherwise.
C12_CenturyBelowHundred ==
    out.fn = "parseQuarter"
        => IF arg.type # "string" \/ ClaimedMatches(arg.str) = {}
           THEN out.res = [year |-> 9999, qtr |-> 9]
           ELSE \A m \in {FirstClaimedMatch(ClaimedMatches(arg.str))} :
                    /\ out.res = ClaimedQuarterOf(arg.str, m,
                                                  MatchedYear(arg.str, m) < 100)
                    /\ out.res.qtr \in 1..4

\* a text with two matches was parsed to the first, a two-digit year
C12_Witness ==
    /\ out.fn = "parseQuarter"
    /\ arg.type = "string"
    /\ \E m, o \in ClaimedMatches(arg.str) : m[1] < o[1] /\ m[2] = 2 /\ o[3] > m[3]
    /\ out.res.year \in 2000..2099
    /\ out.res.qtr \in 1..4

---------------------------------------------------------------------------
(* The progress rank (SpecPipeline).                                       *)

\* the rows the comparator of the load's sort is called with
SortInput == withoutCancelled(normalized(loads[1].csvText.data))

\* C13: the progress rank used by the sort is a total function from labels
\* to integers: late, exposed, on track and completed (lower-cased) rank 0,
\* 1, 2 and 3, every other label, "constructor" included, ranks 99, so
\* that the comparator always returns a number and defines a consistent order.
C13_RankIsTotal ==
    Len(loads) = 1 /\ loads[1].pc = "done"
        => /\ \A i \in 1..Len(SortInput) :
                 sortKey(SortInput[i]).progress = Num(ClaimedRank(SortInput[i]))
           /\ \A i, j \in 1..Len(SortInput) :
                 comparator(sortKey(SortInput[i]), sortKey(SortInput[j])).type
                     = "number"
           /\ ConsistentComparator(CompareTable(SortInput), Len(SortInput))

---------------------------------------------------------------------------
(* The order of the sources (Spec).                                        *)

\* the response is ok and its body is not empty
YieldsText(response) == response.kind = "ok" /\ ~response.text.empty

\* the load the step starts, if it starts one
Starts(i) == i = Len(loads') /\ Len(loads') > Len(loads)

\* C14: in a dev-server load with a local CSV URL the local CSV is requested
\* first, and the release is requested only after the local CSV and then
\* the deployed latest.csv have yielded no text (response not ok, fetch
\* exception or empty body); otherwise the local CSV is never requested; a
\* failure of an earlier source never ends the load with an error, only a
\* failure of the release source does.  (The last conjunct reads: a step
\* that is the return of the local, or deployed, request with a response
\* ends the load if the response yields text and requests the next source
\* if it does not.)
C14_SourceOrder ==
    /\ [](\A i \in 1..Len(loads) : loads[i].pc = "local" => dev /\ localCsvUrl)
    /\ [][/\ \A i \in 1..Len(loads') :
                Starts(i) => loads'[i].pc = IF dev /\ localCsvUrl THEN "local"
                                            ELSE "deployed"
          /\ \A i \in 1..Len(loads) :
                Acts(i) =>
                    /\ loads'[i].pc # "local"
                    /\ loads'[i].pc = "deployed" => loads[i].pc = "local"
                    /\ loads'[i].pc = "release" => loads[i].pc = "deployed"
                    /\ loads'[i].pc = "asset" => loads[i].pc = "release"
                    /\ loads'[i].pc = "failed" => loads[i].pc \in {"release", "asset"}
                    /\ loads[i].pc \in {"local", "deployed"} => error' = error
                    /\ \A response \in AppResponses :
                          /\ \/ loads'[i].pc = IF YieldsText(response)
                                                THEN "done" ELSE "deployed"
                             \/ ~LocalCsvResponse(i, response)
                          /\ \/ loads'[i].pc = IF YieldsText(response)
                                                THEN "done" ELSE "release"
                             \/ ~DeployedCsvResponse(i, response)
         ]_vars

\* a dev-server load with a local CSV URL got as far as the release and
\* failed there
C14_Witness ==
    /\ dev /\ localCsvUrl
    /\ Len(loads) = 1
    /\ loads[1].pc = "failed"
    /\ loads[1].isMounted
    /\ error # <<>>

---------------------------------------------------------------------------
(* The loads alone, every awaited fetch settling in the end (SpecLoads).   *)

\* the fetch that load i awaits settles and fetchData runs on
Settles(i) ==
    \/ \E response \in AppResponses : LocalCsvResponse(i, response)
    \/ \E response \in AppResponses : DeployedCsvResponse(i, response)
    \/ \E response \in Responses({NoText}), hasAsset \in BOOLEAN :
           ReleaseResponse(i, response, hasAsset)
    \/ \E response \in AppResponses : AssetResponse(i, response)

NextLoads ==
    \/ Mount
    \/ Cleanup
    \/ \E i \in 1..Len(loads) : Settles(i)

\* a pending fetch resolves or rejects, and the continuation then runs
SpecLoads ==
    Init /\ [][NextLoads]_vars /\ \A i \in 1..MaxLoads : WF_vars(Settles(i))

\* load i is over: cleaned up, or ended with the loading flag down
Over(i) ==
    /\ Len(loads) >= i
    /\ \/ ~loads[i].isMounted
       \/ loads[i].pc \in {"done", "failed"} /\ ~loading

\* C15: every load that stays mounted eventually ends with loading = false;
\* when it fails, error is set to a non-empty message and rows keeps its
\* value; when it succeeds, rows is replaced and error remains the empty
\* string set at the start of the load.
C15_LoadEnds ==
    /\ \A i \in 1..MaxLoads : (Len(loads) >= i) ~> Over(i)
    /\ [][/\ \A i \in 1..Len(loads') : Starts(i) => loading' /\ error' = <<>>
          /\ \A i \in 1..Len(loads) :
                Acts(i) /\ loads[i].isMounted =>
                    /\ loads'[i].pc = "failed"
                           => error' # <<>> /\ rows' = rows /\ ~loading'
                    /\ loads'[i].pc = "done"
                           => /\ rows' \in Pipeline(loads'[i].csvText.data)
                              /\ error = <<>> /\ error' = <<>>
                              /\ ~loading'
         ]_vars

\* a load failed after an earlier one had set rows: rows is kept, the error
\* is shown and the loading flag is down
C15_Witness ==
    /\ Len(loads) = 2
    /\ loads[1].pc = "done"
    /\ loads[2].pc = "failed" /\ loads[2].isMounted
    /\ rows # <<>>
    /\ rows \in Pipeline(loads[1].csvText.data)
    /\ error # <<>>
    /\ ~loading

====
